---- MODULE Spec2Model ----
(***************************************************************************)
(* Model of homework.py: the startup check of the credentials and the poll *)
(* loop of main() with get_api_answer, check_response, parse_status and    *)
(* send_message.  Message texts are ASCII renderings of the Russian texts  *)
(* of the source; distinct source texts stay distinct.                     *)
(***************************************************************************)
EXTENDS Integers, Sequences, FiniteSets, TLC

VARIABLES
    pc,                        \* position of main()
    PRACTICUM_TOKEN,           \* module globals read from the environment
    TELEGRAM_TOKEN,
    TELEGRAM_CHAT_ID,
    now,                       \* int(time.time())
    timestamp,                 \* the cursor of main()
    mistake_info_send_to_bot,  \* the dedup variable of main()
    response,                  \* local of main(): value of get_api_answer
    homework,                  \* local of main(): response.get('homeworks')[0]
    message,                   \* local of main()
    err,                       \* exception in flight in the current cycle
    from_date,                 \* params['from_date'] of the current request
    sent,                      \* calls of bot.send_message in the current cycle
    log,                       \* records logged in the current cycle
    slept,                     \* seconds slept since the current request
    start,                     \* the exchange of the current cycle and the state it began in
    last_notice,               \* text of the last failure notice handed to send_message
    prev                       \* summary of the last completed cycle

vars == <<pc, PRACTICUM_TOKEN, TELEGRAM_TOKEN, TELEGRAM_CHAT_ID, now, timestamp,
          mistake_info_send_to_bot, response, homework, message, err, from_date,
          sent, log, slept, start, last_notice, prev>>

-----------------------------------------------------------------------------
(* Bounds of the model *)

\* the clock runs over 0..MaxTime
MaxTime == 1
\* a homeworks list holds at most MaxHomeworks records
MaxHomeworks == 2

(* Program constants *)
RETRY_PERIOD == 600
HTTP_OK == 200

-----------------------------------------------------------------------------
(* Python values *)

\* a string or None (os.getenv, mistake_info_send_to_bot)
PyNone == [t |-> "NoneType", s |-> ""]
PyStr(x) == [t |-> "str", s |-> x]

\* a JSON scalar: None, an int or a float
JNone == [t |-> "NoneType", v |-> 0]
JInt(n) == [t |-> "int", v |-> n]
JFloat(n) == [t |-> "float", v |-> n]
JBool(b) == [t |-> "bool", v |-> IF b THEN 1 ELSE 0]
Unbound == [t |-> "unbound", v |-> 0]

\* isinstance(x, int)
IsInt(x) == x.t \in {"int", "bool"}

\* a homework record: a dict with optional keys, or a non-dict JSON value
Record(hasName, name, hasStatus, status) ==
    [t |-> "dict", has_name |-> hasName, homework_name |-> name,
     has_status |-> hasStatus, status |-> status]
NoHomework == [t |-> "unbound", has_name |-> FALSE, homework_name |-> "",
               has_status |-> FALSE, status |-> ""]

\* a body: a dict with optional keys homeworks and current_date, or another JSON value
Body(hasHw, hwIsList, hw, hasCd, cd) ==
    [t |-> "dict", has_homeworks |-> hasHw, homeworks_is_list |-> hwIsList,
     homeworks |-> hw, has_current_date |-> hasCd, current_date |-> cd]
NotADict == [t |-> "list", has_homeworks |-> FALSE, homeworks_is_list |-> FALSE,
             homeworks |-> <<>>, has_current_date |-> FALSE, current_date |-> JNone]
NoResponse == [t |-> "unbound", has_homeworks |-> FALSE, homeworks_is_list |-> FALSE,
               homeworks |-> <<>>, has_current_date |-> FALSE, current_date |-> JNone]

\* an exception: its class and str(err)
Exc(type, text) == [type |-> type, text |-> text]
NoErr == Exc("", "")

-----------------------------------------------------------------------------
(* Pure functions of the module *)

\* HOMEWORK_VERDICTS: status -> verdict text
HOMEWORK_VERDICTS ==
    [s \in {"approved", "reviewing", "rejected"} |->
        CASE s = "approved" -> "Rabota proverena: revyueru vse ponravilos. Ura!"
          [] s = "reviewing" -> "Rabota vzyata na proverku revyuerom."
          [] s = "rejected" -> "Rabota proverena: u revyuera est zamechaniya."]

\* str(KeyError(text)): the repr of the single argument
KeyErrorStr(text) == "'" \o text \o "'"

\* str(exception(a, b)): the repr of the argument tuple
TupleStr(a, b) == "('" \o a \o "', '" \o b \o "')"

\* check_tokens(): the exception it raises, NoErr when it returns True
check_tokens(practicum, telegram, chat) ==
    LET TOKENS == <<[key |-> "PRACTICUM_TOKEN", val |-> practicum],
                    [key |-> "TELEGRAM_TOKEN", val |-> telegram],
                    [key |-> "TELEGRAM_CHAT_ID", val |-> chat]>>
        IsForgotten(tk) == tk.val = PyNone
        FORGET_TOKENS == SelectSeq(TOKENS, IsForgotten)
    IN  IF Len(FORGET_TOKENS) # 0
        THEN Exc("TokenUnexistingException", "Poteryany peremennye okruzheniya")
        ELSE NoErr

\* mutant: the status code of the answer is not looked at
get_api_answer_any_status(o) ==
    IF ~o.transport_ok
    THEN [err |-> Exc("TotallyUnsuccessAnswerException",
                      "Voobshche ne udalos poluchit otvet ot API."),
          value |-> NoResponse]
    ELSE IF ~o.json_ok
    THEN [err |-> Exc("JSONDecodeError", "Expecting value: line 1 column 1 (char 0)"),
          value |-> NoResponse]
    ELSE [err |-> NoErr, value |-> o.body]

\* get_api_answer(timestamp) on the outcome o of the HTTP exchange:
\* [err |-> exception raised or NoErr, value |-> response.json()]
get_api_answer(o) ==
    IF ~o.transport_ok
    THEN [err |-> Exc("TotallyUnsuccessAnswerException",
                      "Voobshche ne udalos poluchit otvet ot API."),
          value |-> NoResponse]
    ELSE IF o.status_code # HTTP_OK
    THEN [err |-> Exc("UnsuccessAnswerException",
                      TupleStr("Otvet ot API poluchen, no status ne uspeshnyi",
                               "Eto vnutrennyaya oshibka na storone servera.")),
          value |-> NoResponse]
    ELSE IF ~o.json_ok
    THEN [err |-> Exc("JSONDecodeError", "Expecting value: line 1 column 1 (char 0)"),
          value |-> NoResponse]
    ELSE [err |-> NoErr, value |-> o.body]

\* mutant: the empty list raised as a plain Exception
AbsentError_generic ==
    Exc("Exception", "Otvet API prishel bez dannykh o novykh domashkakh")

\* lines 165-167: the exception raised for an empty homeworks list
AbsentError ==
    Exc("HomeworksAreAbsentException", "Otvet API prishel bez dannykh o novykh domashkakh")

\* mutant: one membership test for both keys, ('homeworks' or 'current_date') not in
\* response, which looks for homeworks alone
check_response_first_key(r, t) ==
    IF r.t # "dict"
    THEN Exc("TypeError", "Otvet API ne yavlyaetsya slovarem")
    ELSE IF ~r.has_homeworks
    THEN Exc("KeyError", KeyErrorStr("V otvete API net klyucha homeworks"))
    ELSE IF ~r.homeworks_is_list
    THEN Exc("TypeError", "Otvet API ne v vide spiska")
    ELSE IF \/ ~r.has_current_date
            \/ r.current_date = JNone
            \/ ~IsInt(r.current_date)
            \/ r.current_date.v < 0
            \/ r.current_date.v > t
    THEN Exc("TypeError", "API vernul nekorrektnoe vremya")
    ELSE IF Len(r.homeworks) = 0
    THEN AbsentError
    ELSE NoErr

\* mutant: current_date is not compared with the clock
check_response_no_clock(r, t) ==
    IF r.t # "dict"
    THEN Exc("TypeError", "Otvet API ne yavlyaetsya slovarem")
    ELSE IF ~r.has_homeworks
    THEN Exc("KeyError", KeyErrorStr("V otvete API net klyucha homeworks"))
    ELSE IF ~r.has_current_date
    THEN Exc("KeyError", KeyErrorStr("V otvete API net klyucha current_date"))
    ELSE IF ~r.homeworks_is_list
    THEN Exc("TypeError", "Otvet API ne v vide spiska")
    ELSE IF \/ r.current_date = JNone
            \/ ~IsInt(r.current_date)
            \/ r.current_date.v < 0
    THEN Exc("TypeError", "API vernul nekorrektnoe vremya")
    ELSE IF Len(r.homeworks) = 0
    THEN AbsentError
    ELSE NoErr

\* check_response(response) at clock t: the exception it raises, NoErr when it returns True
check_response(r, t) ==
    IF r.t # "dict"
    THEN Exc("TypeError", "Otvet API ne yavlyaetsya slovarem")
    ELSE IF ~r.has_homeworks
    THEN Exc("KeyError", KeyErrorStr("V otvete API net klyucha homeworks"))
    ELSE IF ~r.has_current_date
    THEN Exc("KeyError", KeyErrorStr("V otvete API net klyucha current_date"))
    ELSE IF ~r.homeworks_is_list
    THEN Exc("TypeError", "Otvet API ne v vide spiska")
    ELSE IF \/ r.current_date = JNone
            \/ ~IsInt(r.current_date)
            \/ r.current_date.v < 0
            \/ r.current_date.v > t
    THEN Exc("TypeError", "API vernul nekorrektnoe vremya")
    ELSE IF Len(r.homeworks) = 0
    THEN AbsentError
    ELSE NoErr

\* mutant: the status is read as homework['status'], a KeyError when the key is absent
parse_status_index(h) ==
    IF h.t # "dict"
    THEN [err |-> Exc("TypeError", "argument of type 'int' is not iterable"), value |-> ""]
    ELSE IF ~h.has_name
    THEN [err |-> Exc("KeyError", KeyErrorStr("Otvet ot API ne soderzhit klyucha \"homework_name\".")),
          value |-> ""]
    ELSE IF ~h.has_status
    THEN [err |-> Exc("KeyError", KeyErrorStr("status")), value |-> ""]
    ELSE IF h.status \notin DOMAIN HOMEWORK_VERDICTS
    THEN [err |-> Exc("HomeworkStatusIsUncorrectException", "U domashnei raboty nekorrektnyi status."),
          value |-> ""]
    ELSE [err |-> NoErr,
          value |-> "Izmenilsya status proverki raboty \"" \o h.homework_name \o "\". "
                    \o HOMEWORK_VERDICTS[h.status]]

\* parse_status(homework): [err |-> exception raised or NoErr, value |-> the text returned]
parse_status(h) ==
    IF h.t # "dict"
    THEN [err |-> Exc("TypeError", "argument of type 'int' is not iterable"), value |-> ""]
    ELSE IF ~h.has_name
    THEN [err |-> Exc("KeyError", KeyErrorStr("Otvet ot API ne soderzhit klyucha \"homework_name\".")),
          value |-> ""]
    ELSE IF ~(h.has_status /\ h.status \in DOMAIN HOMEWORK_VERDICTS)
    THEN [err |-> Exc("HomeworkStatusIsUncorrectException", "U domashnei raboty nekorrektnyi status."),
          value |-> ""]
    ELSE [err |-> NoErr,
          value |-> "Izmenilsya status proverki raboty \"" \o h.homework_name \o "\". "
                    \o HOMEWORK_VERDICTS[h.status]]

\* mutant: the exception of bot.send_message is logged and raised again
send_message_reraises(ok) ==
    IF ok THEN [raised |-> FALSE, logged |-> "DEBUG sent"]
          ELSE [raised |-> TRUE, logged |-> "ERROR send"]

\* send_message(bot, message) when bot.send_message delivers (ok) or raises:
\* whether the exception leaves send_message, and what is logged
send_message(ok) ==
    IF ok THEN [raised |-> FALSE, logged |-> "DEBUG sent"]
          ELSE [raised |-> FALSE, logged |-> "ERROR send"]

\* mutant: the last record of the list is taken
LastHomework(r) == r.homeworks[Len(r.homeworks)]

\* main(), line 216: response.get('homeworks')[0]
FirstHomework(r) == r.homeworks[1]

\* mutant: the except clause without the trailing Exception
Caught_listed(e) ==
    e.type \in {"TypeError", "KeyError", "HomeworkStatusIsUncorrectException",
                "UnsuccessAnswerException", "TotallyUnsuccessAnswerException"}

\* main(), lines 223-230: whether the except clause matches the exception:
\* one of the listed classes, or any other subclass of Exception
Caught(e) ==
    \/ e.type \in {"TypeError", "KeyError", "HomeworkStatusIsUncorrectException",
                   "UnsuccessAnswerException", "TotallyUnsuccessAnswerException"}
    \/ e # NoErr

\* mutant: no finally clause, the loop goes straight on
Finally_no_sleep(escaping) == IF escaping THEN "crashed" ELSE "get_api_answer"

\* main(), lines 236-237: where control goes when the try statement is left,
\* with an exception still in flight (escaping) or without
Finally(escaping) == IF escaping THEN "finally_raise" ELSE "sleep"

\* main(), line 220: response.get('current_date', timestamp)
NextTimestamp(r, ts) == IF r.has_current_date THEN r.current_date ELSE ts

\* main(), line 232: the failure message of an exception
FailureMessage(e) == "Sboi v rabote programmy: " \o e.text

\* mutant: every failure message is sent
IsNewMistake_always(m, last) == TRUE

\* mutant: a failure message is sent only while none has been sent yet
IsNewMistake_first(m, last) == last = PyNone

\* main(), line 233: whether the failure message is handed to send_message
IsNewMistake(m, last) == PyStr(m) # last

-----------------------------------------------------------------------------
(* The environment: credentials, HTTP exchanges, the chat collaborator *)

\* os.getenv: None when the variable is unset, else its value, possibly empty
Credentials == {PyNone, PyStr(""), PyStr("tok")}

\* the environments of the process: every variable set or unset, and at most
\* one of them set to the empty string
Environments ==
    {e \in [{"PRACTICUM_TOKEN", "TELEGRAM_TOKEN", "TELEGRAM_CHAT_ID"} -> Credentials] :
        Cardinality({k \in DOMAIN e : e[k] = PyStr("")}) = 0
        \/ (Cardinality({k \in DOMAIN e : e[k] = PyStr("")}) = 1
            /\ \A k \in DOMAIN e : e[k] # PyNone)}

\* the statuses a record may carry: the three verdicts and an undocumented one
Statuses == {"approved", "reviewing", "rejected", "unknown"}

\* the first element of a homeworks list
Records ==
    {Record(TRUE, "HW1", TRUE, s) : s \in Statuses}
    \cup {Record(TRUE, "HW1", FALSE, ""), Record(FALSE, "", TRUE, "approved"),
          Record(FALSE, "", FALSE, "")}
    \cup {[NoHomework EXCEPT !.t = "int"]}

\* the elements after the first
LaterRecords == {Record(TRUE, "HW2", TRUE, "rejected")}

RECURSIVE Tails(_)
Tails(n) == IF n = 0 THEN {<<>>}
            ELSE Tails(n - 1) \cup {Append(tl, h) : tl \in Tails(n - 1), h \in LaterRecords}

\* the homeworks lists: empty, or a first record and up to MaxHomeworks - 1 more
HomeworkLists == {<<>>} \cup {<<h>> \o tl : h \in Records, tl \in Tails(MaxHomeworks - 1)}

\* the values of current_date: None, a float, a bool, integers around [0, now]
Dates == {JNone, JFloat(1), JBool(TRUE)} \cup {JInt(n) : n \in -1 .. MaxTime + 1}

\* the homeworks key: absent, not a list, an empty list, a list of one record
HomeworksShapes ==
    {[has |-> FALSE, is_list |-> FALSE, items |-> <<>>],
     [has |-> TRUE, is_list |-> FALSE, items |-> <<>>],
     [has |-> TRUE, is_list |-> TRUE, items |-> <<>>],
     [has |-> TRUE, is_list |-> TRUE, items |-> <<Record(TRUE, "HW1", TRUE, "approved")>>]}

\* the JSON bodies of a 200 answer: every list with a current_date in range, and
\* every shape of homeworks with every current_date, present or absent
Bodies ==
    {NotADict}
    \cup {Body(TRUE, TRUE, hw, TRUE, JInt(n)) : hw \in HomeworkLists, n \in 0 .. MaxTime}
    \cup {Body(sh.has, sh.is_list, sh.items, TRUE, cd) : sh \in HomeworksShapes, cd \in Dates}
    \cup {Body(sh.has, sh.is_list, sh.items, FALSE, JNone) : sh \in HomeworksShapes}

\* the outcomes of requests.get(...) followed by response.json()
Exchanges ==
    {[transport_ok |-> FALSE, status_code |-> 0, json_ok |-> FALSE, body |-> NoResponse],
     [transport_ok |-> TRUE, status_code |-> 503, json_ok |-> FALSE, body |-> NoResponse],
     [transport_ok |-> TRUE, status_code |-> HTTP_OK, json_ok |-> FALSE, body |-> NoResponse]}
    \cup {[transport_ok |-> TRUE, status_code |-> HTTP_OK, json_ok |-> TRUE, body |-> b] :
            b \in Bodies}

\* one call of bot.send_message
Call(text, ok, kind) == [text |-> text, delivered |-> ok, kind |-> kind]

\* summary of a completed cycle
NoCycle == [ended |-> FALSE, from_date |-> Unbound, outcome |-> "", current_date |-> JNone,
            fetch_failed |-> FALSE, message |-> "", was_new |-> FALSE, calls |-> 0]

\* the exchange of a cycle and the dedup state the cycle began in
NoStart == [transport_ok |-> FALSE, status_code |-> 0, mistake |-> PyNone, notice |-> PyNone]

Min(a, b) == IF a < b THEN a ELSE b

-----------------------------------------------------------------------------
(* The state machine of main() *)

InCycle == pc \in {"check_response", "parse_status", "send_message", "advance",
                   "except", "sleep"}

Init ==
    /\ pc = "main"
    /\ \E e \in Environments :
          /\ PRACTICUM_TOKEN = e["PRACTICUM_TOKEN"]
          /\ TELEGRAM_TOKEN = e["TELEGRAM_TOKEN"]
          /\ TELEGRAM_CHAT_ID = e["TELEGRAM_CHAT_ID"]
    /\ now \in 0 .. MaxTime
    /\ timestamp = Unbound
    /\ mistake_info_send_to_bot = PyNone
    /\ response = NoResponse
    /\ homework = NoHomework
    /\ message = ""
    /\ err = NoErr
    /\ from_date = Unbound
    /\ sent = <<>>
    /\ log = {}
    /\ slept = 0
    /\ start = NoStart
    /\ last_notice = PyNone
    /\ prev = NoCycle

\* lines 204-205: bot = telegram.Bot(token=TELEGRAM_TOKEN); timestamp = int(time.time()).
\* The library checks the token it is given: with a token that is None or
\* empty the constructor either returns a bot or raises, and the exception
\* leaves main().
Startup ==
    /\ pc = "main"
    /\ \E constructed \in (IF TELEGRAM_TOKEN \in {PyNone, PyStr("")}
                          THEN BOOLEAN ELSE {TRUE}) :
          IF constructed
          THEN /\ timestamp' = JInt(now)
               /\ pc' = "check_tokens"
          ELSE /\ pc' = "crashed"
               /\ UNCHANGED timestamp
    /\ UNCHANGED <<PRACTICUM_TOKEN, TELEGRAM_TOKEN, TELEGRAM_CHAT_ID, now,
                   mistake_info_send_to_bot, response, homework, message, err,
                   from_date, sent, log, slept, start, last_notice, prev>>

\* lines 206-211: check_tokens(), logger.critical and sys.exit() when it raises
CheckTokens ==
    /\ pc = "check_tokens"
    /\ LET token == check_tokens(PRACTICUM_TOKEN, TELEGRAM_TOKEN, TELEGRAM_CHAT_ID)
       IN  IF token # NoErr
           THEN /\ log' = log \cup {"CRITICAL " \o token.text}
                /\ pc' = "exited"
                /\ UNCHANGED mistake_info_send_to_bot
           ELSE /\ mistake_info_send_to_bot' = PyNone
                /\ pc' = "get_api_answer"
                /\ UNCHANGED log
    /\ UNCHANGED <<PRACTICUM_TOKEN, TELEGRAM_TOKEN, TELEGRAM_CHAT_ID, now, timestamp,
                   response, homework, message, err, from_date, sent, slept,
                   start, last_notice, prev>>

\* line 214: response = get_api_answer(timestamp)
GetApiAnswer ==
    /\ pc = "get_api_answer"
    /\ \E o \in Exchanges :
          LET r == get_api_answer(o)
          IN  /\ from_date' = timestamp
              /\ err' = r.err
              /\ response' = IF r.err = NoErr THEN r.value ELSE response
              /\ pc' = IF r.err = NoErr THEN "check_response" ELSE "except"
              /\ start' = [transport_ok |-> o.transport_ok, status_code |-> o.status_code,
                            mistake |-> mistake_info_send_to_bot, notice |-> last_notice]
    /\ sent' = <<>>
    /\ log' = {}
    /\ slept' = 0
    /\ UNCHANGED <<PRACTICUM_TOKEN, TELEGRAM_TOKEN, TELEGRAM_CHAT_ID, now, timestamp,
                   mistake_info_send_to_bot, homework, message, last_notice, prev>>

\* lines 215-216: if check_response(response): homework = response.get('homeworks')[0]
CheckResponse ==
    /\ pc = "check_response"
    /\ LET e == check_response(response, now)
       IN  IF e = NoErr
           THEN /\ homework' = FirstHomework(response)
                /\ pc' = "parse_status"
                /\ UNCHANGED err
           ELSE /\ err' = e
                /\ pc' = "except"
                /\ UNCHANGED homework
    /\ UNCHANGED <<PRACTICUM_TOKEN, TELEGRAM_TOKEN, TELEGRAM_CHAT_ID, now, timestamp,
                   mistake_info_send_to_bot, response, message, from_date, sent, log,
                   slept, start, last_notice, prev>>

\* mutant: an exception of parse_status is noted and the iteration goes on to line 220
ParseStatus_goes_on ==
    /\ pc = "parse_status"
    /\ LET r == parse_status(homework)
       IN  IF r.err = NoErr
           THEN /\ message' = r.value
                /\ log' = log \cup {"INFO update"}
                /\ pc' = "send_message"
                /\ UNCHANGED err
           ELSE /\ err' = r.err
                /\ pc' = "advance"
                /\ UNCHANGED <<message, log>>
    /\ UNCHANGED <<PRACTICUM_TOKEN, TELEGRAM_TOKEN, TELEGRAM_CHAT_ID, now, timestamp,
                   mistake_info_send_to_bot, response, homework, from_date, sent,
                   slept, start, last_notice, prev>>

\* lines 217-218: message = parse_status(homework); logger.info(...)
ParseStatus ==
    /\ pc = "parse_status"
    /\ LET r == parse_status(homework)
       IN  IF r.err = NoErr
           THEN /\ message' = r.value
                /\ log' = log \cup {"INFO update"}
                /\ pc' = "send_message"
                /\ UNCHANGED err
           ELSE /\ err' = r.err
                /\ pc' = "except"
                /\ UNCHANGED <<message, log>>
    /\ UNCHANGED <<PRACTICUM_TOKEN, TELEGRAM_TOKEN, TELEGRAM_CHAT_ID, now, timestamp,
                   mistake_info_send_to_bot, response, homework, from_date, sent,
                   slept, start, last_notice, prev>>

\* line 219: send_message(bot, message) on the status path
SendStatus ==
    /\ pc = "send_message"
    /\ \E ok \in BOOLEAN :
          LET s == send_message(ok)
          IN  /\ sent' = Append(sent, Call(message, ok, "status"))
              /\ log' = log \cup {s.logged}
              /\ IF s.raised
                 THEN /\ err' = Exc("TelegramError", "chat unreachable")
                      /\ pc' = "except"
                 ELSE /\ pc' = "advance"
                      /\ UNCHANGED err
    /\ UNCHANGED <<PRACTICUM_TOKEN, TELEGRAM_TOKEN, TELEGRAM_CHAT_ID, now, timestamp,
                   mistake_info_send_to_bot, response, homework, message, from_date,
                   slept, start, last_notice, prev>>

\* line 220: timestamp = response.get('current_date', timestamp)
AdvanceCursor ==
    /\ pc = "advance"
    /\ timestamp' = NextTimestamp(response, timestamp)
    /\ pc' = Finally(FALSE)
    /\ UNCHANGED <<PRACTICUM_TOKEN, TELEGRAM_TOKEN, TELEGRAM_CHAT_ID, now,
                   mistake_info_send_to_bot, response, homework, message, err,
                   from_date, sent, log, slept, start, last_notice, prev>>

\* lines 221-222: except HomeworksAreAbsentException: logger.debug(deb)
ExceptAbsent ==
    /\ pc = "except"
    /\ err.type = "HomeworksAreAbsentException"
    /\ log' = log \cup {"DEBUG " \o err.text}
    /\ pc' = Finally(FALSE)
    /\ UNCHANGED <<PRACTICUM_TOKEN, TELEGRAM_TOKEN, TELEGRAM_CHAT_ID, now, timestamp,
                   mistake_info_send_to_bot, response, homework, message, err,
                   from_date, sent, slept, start, last_notice, prev>>

\* lines 223-235: except (..., Exception): log, format the failure message and
\* send it unless it equals the last one; an exception the clause does not
\* match, or one raised inside it, stays in flight through the finally clause
ExceptError ==
    /\ pc = "except"
    /\ err.type # "HomeworksAreAbsentException"
    /\ IF ~Caught(err)
       THEN /\ pc' = Finally(TRUE)
            /\ UNCHANGED <<mistake_info_send_to_bot, message, sent, log, last_notice>>
       ELSE /\ message' = FailureMessage(err)
            /\ IF IsNewMistake(message', mistake_info_send_to_bot)
               THEN \E ok \in BOOLEAN :
                       LET s == send_message(ok)
                       IN  /\ sent' = Append(sent, Call(message', ok, "failure"))
                           /\ log' = log \cup {"ERROR " \o err.text, s.logged}
                           /\ last_notice' = PyStr(message')
                           /\ IF s.raised
                              THEN /\ pc' = Finally(TRUE)
                                   /\ UNCHANGED mistake_info_send_to_bot
                              ELSE /\ pc' = Finally(FALSE)
                                   /\ mistake_info_send_to_bot' = PyStr(message')
               ELSE /\ log' = log \cup {"ERROR " \o err.text}
                    /\ pc' = Finally(FALSE)
                    /\ UNCHANGED <<mistake_info_send_to_bot, sent, last_notice>>
    /\ UNCHANGED <<PRACTICUM_TOKEN, TELEGRAM_TOKEN, TELEGRAM_CHAT_ID, now, timestamp,
                   response, homework, err, from_date, slept, start, prev>>

\* what the cycle that ends did
Outcome ==
    IF err = NoErr THEN "status"
    ELSE IF err.type = "HomeworksAreAbsentException" THEN "absent"
    ELSE "failure"

Summary ==
    [ended |-> TRUE, from_date |-> from_date, outcome |-> Outcome,
     current_date |-> IF Outcome = "failure" THEN JNone ELSE response.current_date,
     fetch_failed |-> ~start.transport_ok \/ start.status_code # HTTP_OK,
     message |-> IF Outcome = "failure" THEN message ELSE "",
     was_new |-> Outcome = "failure" /\ PyStr(message) # start.mistake,
     calls |-> Len(sent)]

\* lines 236-237: finally: time.sleep(RETRY_PERIOD); then the next iteration, or the
\* exception raised inside a handler leaves main().  The clock advances while
\* the process sleeps (it stops at MaxTime).  The locals of the iteration are
\* dead here: the next iteration assigns each before it reads it.
Sleep ==
    /\ pc \in {"sleep", "finally_raise"}
    /\ slept' = slept + RETRY_PERIOD
    /\ \E t \in now .. Min(now + 1, MaxTime) : now' = t
    /\ prev' = Summary
    /\ pc' = IF pc = "sleep" THEN "get_api_answer" ELSE "crashed"
    /\ response' = NoResponse
    /\ homework' = NoHomework
    /\ message' = ""
    /\ err' = NoErr
    /\ sent' = <<>>
    /\ log' = {}
    /\ start' = NoStart
    /\ UNCHANGED <<PRACTICUM_TOKEN, TELEGRAM_TOKEN, TELEGRAM_CHAT_ID, timestamp,
                   mistake_info_send_to_bot, from_date, last_notice>>

\* the exit status of the process once main() is left: sys.exit() of line 210
\* has no argument, which is status 0; an exception that leaves main() is
\* status 1; -1 while the process runs
ExitStatus ==
    CASE pc = "exited" -> 0
      [] pc = "crashed" -> 1
      [] OTHER -> -1

Next ==
    \/ Startup
    \/ CheckTokens
    \/ GetApiAnswer
    \/ CheckResponse
    \/ ParseStatus
    \/ SendStatus
    \/ AdvanceCursor
    \/ ExceptAbsent
    \/ ExceptError
    \/ Sleep

Spec == Init /\ [][Next]_vars

\* the scheduling of a single-threaded process: it takes its next step
FairSpec == Spec /\ WF_vars(Next)

TypeOK ==
    /\ pc \in {"main", "check_tokens", "exited", "crashed", "get_api_answer",
               "check_response", "parse_status", "send_message", "advance",
               "except", "sleep", "finally_raise"}
    /\ now \in 0 .. MaxTime
    /\ slept \in {0, RETRY_PERIOD}

-----------------------------------------------------------------------------
(* Vocabulary of the properties *)

\* the response is a mapping whose homeworks is a list
HasList(r) == r.t = "dict" /\ r.has_homeworks /\ r.homeworks_is_list

\* the response carries a current_date that is an integer of [0, t]
HasValidDate(r, t) ==
    /\ r.t = "dict"
    /\ r.has_current_date
    /\ r.current_date.t = "int"
    /\ r.current_date.v >= 0
    /\ r.current_date.v <= t

\* the record has a name and one of the three documented statuses
Parses(h) ==
    /\ h.t = "dict"
    /\ h.has_name
    /\ h.has_status
    /\ h.status \in {"approved", "reviewing", "rejected"}

\* the request of the cycle failed: no response at all, or a status other than 200
FetchFailed == ~start.transport_ok \/ start.status_code # HTTP_OK

\* the calls of the cycle that carry a failure notice
Notices == {i \in DOMAIN sent : sent[i].kind = "failure"}

\* the poll loop has been entered
LoopEntered == pc \notin {"main", "check_tokens", "exited"}
               /\ ~(pc = "crashed" /\ from_date = Unbound)

AnyCredentialMissing ==
    PyNone \in {PRACTICUM_TOKEN, TELEGRAM_TOKEN, TELEGRAM_CHAT_ID}

-----------------------------------------------------------------------------
(* C1: a cycle whose response is a mapping with an empty homeworks list and  *)
(* a valid current_date d raises the no-new-work condition, and the request  *)
(* of the next cycle carries from_date = d.                                  *)
C1_EmptyAdvancesCursor ==
    /\ (pc = "sleep" /\ HasList(response) /\ Len(response.homeworks) = 0
            /\ HasValidDate(response, now))
        => err.type = "HomeworksAreAbsentException"
    /\ (InCycle /\ prev.ended /\ prev.outcome = "absent")
        => from_date = prev.current_date

-----------------------------------------------------------------------------
(* C2 as stated: two consecutive cycles that end in a failure with the same  *)
(* failure message make exactly one send_message call between them.          *)
TwoSameFailures ==
    /\ pc = "sleep"
    /\ prev.ended
    /\ prev.outcome = "failure"
    /\ Outcome = "failure"
    /\ message = prev.message

C2_ExactlyOneNotice ==
    TwoSameFailures => prev.calls + Len(sent) = 1

(* C2 as amended: of two such cycles the second makes no send_message call   *)
(* and the first makes one exactly when its text differs from the dedup      *)
(* variable it started with, so the two cycles make at most one call.        *)
C2_AtMostOneNotice ==
    TwoSameFailures =>
        /\ Len(sent) = 0
        /\ prev.calls = (IF prev.was_new THEN 1 ELSE 0)

C2_Witness == TwoSameFailures /\ prev.calls = 1

-----------------------------------------------------------------------------
(* C3: a cycle whose response is valid, with a non-empty homeworks list      *)
(* whose first record parses, makes exactly one send_message call, a status  *)
(* notification whose text is parse_status of the first record, and ends     *)
(* with the cursor equal to the response's current_date.                     *)
GoodResponse ==
    /\ HasList(response)
    /\ HasValidDate(response, now)
    /\ Len(response.homeworks) >= 1
    /\ Parses(response.homeworks[1])

C3_StatusNotified ==
    (pc = "sleep" /\ GoodResponse) =>
        /\ Len(sent) = 1
        /\ sent[1].kind = "status"
        /\ sent[1].text = parse_status(response.homeworks[1]).value
        /\ timestamp = response.current_date

C3_Witness ==
    /\ pc = "sleep"
    /\ GoodResponse
    /\ Len(response.homeworks) >= 2
    /\ response.current_date # from_date
    /\ Len(sent) = 1

-----------------------------------------------------------------------------
(* C4: a cycle whose request fails (no response, or a status other than 200) *)
(* raises one of the two fetch exceptions, hands the failure notice to       *)
(* send_message unless it equals the dedup variable, leaves the cursor       *)
(* unchanged, sleeps, and the next request carries the same from_date.       *)
C4_FetchFailureReported ==
    /\ (pc = "sleep" /\ FetchFailed) =>
          /\ err.type \in {"TotallyUnsuccessAnswerException", "UnsuccessAnswerException"}
          /\ timestamp = from_date
          /\ IF PyStr(FailureMessage(err)) # start.mistake
             THEN /\ Len(sent) = 1
                  /\ sent[1].kind = "failure"
                  /\ sent[1].text = FailureMessage(err)
             ELSE sent = <<>>
    /\ (pc = "get_api_answer" /\ prev.ended /\ prev.fetch_failed) =>
          /\ slept = RETRY_PERIOD
          /\ timestamp = prev.from_date
    /\ (InCycle /\ prev.ended /\ prev.fetch_failed) => from_date = prev.from_date

C4_Witness ==
    /\ InCycle
    /\ prev.ended
    /\ prev.fetch_failed
    /\ prev.calls = 1
    /\ FetchFailed
    /\ start.status_code = 503

-----------------------------------------------------------------------------
(* C5: a delivery failure inside send_message is logged and does not leave   *)
(* send_message: on the status path the cycle goes on to advance the cursor, *)
(* on the failure path to its sleep, and the loop is never aborted.          *)
C5_DeliveryFailureSwallowed ==
    /\ \A i \in DOMAIN sent :
          ~sent[i].delivered =>
              /\ "ERROR send" \in log
              /\ pc \in {"advance", "sleep"}
              /\ (sent[i].kind = "status" => err = NoErr)
    /\ LoopEntered => pc \notin {"crashed", "finally_raise"}

C5_Witness ==
    /\ pc = "sleep"
    /\ Len(sent) = 1
    /\ ~sent[1].delivered
    /\ sent[1].kind = "failure"

-----------------------------------------------------------------------------
(* C6: once the poll loop is entered the driver has no terminal state:      *)
(* whatever the request, the validation and the parsing of a cycle did, a    *)
(* new request is performed, infinitely often.                               *)
\* a request has just been performed: its answer is about to be validated,
\* or its exception is about to be handled
JustFetched == pc = "check_response" \/ (pc = "except" /\ response = NoResponse)

C6_LoopNeverEnds == []<>(~LoopEntered \/ JustFetched)

C6_Witness ==
    /\ pc = "get_api_answer"
    /\ prev.ended
    /\ prev.outcome = "failure"
    /\ prev.message = FailureMessage(Exc("JSONDecodeError",
                                         "Expecting value: line 1 column 1 (char 0)"))

-----------------------------------------------------------------------------
(* C7: at the end of a cycle a failure notice has been handed to             *)
(* send_message if and only if the cycle raised an error other than          *)
(* no-new-work and its failure message differs from the last failure notice  *)
(* handed to send_message before the cycle.                                  *)
C7_NoticeIffNewFailure ==
    pc = "sleep" =>
        ((Notices # {}) <=>
            /\ err # NoErr
            /\ err.type # "HomeworksAreAbsentException"
            /\ PyStr(FailureMessage(err)) # start.notice)

\* a repeated failure is suppressed after an intervening successful cycle
C7_Witness ==
    /\ pc = "sleep"
    /\ Outcome = "failure"
    /\ Notices = {}
    /\ prev.outcome = "status"

-----------------------------------------------------------------------------
(* C8 as stated: a cycle whose response has an empty homeworks list sends    *)
(* nothing to chat and leaves the dedup variable unchanged.                  *)
C8_EmptyIsSilent ==
    (pc = "sleep" /\ HasList(response) /\ Len(response.homeworks) = 0) =>
        /\ sent = <<>>
        /\ mistake_info_send_to_bot = start.mistake

(* C8 as amended: a cycle whose response has an empty homeworks list and a   *)
(* current_date that is present and an integer of [0, now] sends nothing to  *)
(* chat and leaves the dedup variable unchanged.                             *)
C8_EmptyValidIsSilent ==
    (pc = "sleep" /\ HasList(response) /\ Len(response.homeworks) = 0
        /\ HasValidDate(response, now)) =>
        /\ sent = <<>>
        /\ mistake_info_send_to_bot = start.mistake
        /\ "DEBUG " \o AbsentError.text \in log

C8_Witness ==
    /\ pc = "sleep"
    /\ HasList(response)
    /\ Len(response.homeworks) = 0
    /\ HasValidDate(response, now)
    /\ start.mistake # PyNone

-----------------------------------------------------------------------------
(* C9: every cycle ends with exactly one sleep of RETRY_PERIOD: nothing is   *)
(* slept between a request and the end of its cycle, and when the next       *)
(* request is due exactly one RETRY_PERIOD has been slept since the last.    *)
C9_OneSleepPerCycle ==
    /\ (InCycle \/ pc = "finally_raise") => slept = 0
    /\ (pc = "get_api_answer" /\ from_date # Unbound) => slept = RETRY_PERIOD
    /\ (pc = "get_api_answer" /\ from_date # Unbound) => prev.ended

\* the sleep after a suppressed duplicate failure
C9_Witness ==
    /\ pc = "get_api_answer"
    /\ slept = RETRY_PERIOD
    /\ prev.outcome = "failure"
    /\ prev.calls = 0

-----------------------------------------------------------------------------
(* C10: with a credential missing at startup main() logs a fatal-level       *)
(* message and terminates before the poll loop: no request is issued and no  *)
(* chat message is sent.                                                     *)
C10_MissingCredentialIsFatal ==
    AnyCredentialMissing =>
        /\ pc \in {"main", "check_tokens", "exited"}
        /\ pc = "exited" => \E l \in log : l = "CRITICAL Poteryany peremennye okruzheniya"
        /\ from_date = Unbound
        /\ sent = <<>>

-----------------------------------------------------------------------------
(* C11: the poll loop is entered, and a first request issued, only if all    *)
(* three credentials are non-empty strings at startup.                       *)
NonEmpty(c) == c.t = "str" /\ c.s # ""

C11_LoopNeedsNonEmptyCredentials ==
    LoopEntered =>
        /\ NonEmpty(PRACTICUM_TOKEN)
        /\ NonEmpty(TELEGRAM_TOKEN)
        /\ NonEmpty(TELEGRAM_CHAT_ID)

-----------------------------------------------------------------------------
(* C12 as stated: parse_status fails with the unknown-status error on every  *)
(* record whose status is not one of the three verdicts, with or without a   *)
(* status key, with or without homework_name.                                *)
\* parse_status has been applied to the record of the cycle
Parsed == pc \in {"send_message", "advance", "except", "sleep"} /\ homework.t = "dict"

BadStatus(h) == ~(h.has_status /\ h.status \in {"approved", "reviewing", "rejected"})

C12_BadStatusIsUnknownStatus ==
    (Parsed /\ BadStatus(homework)) =>
        err.type = "HomeworkStatusIsUncorrectException"

(* C12 as amended: on a record that has homework_name and whose status is    *)
(* not one of the three verdicts (no status key included) parse_status fails *)
(* with the unknown-status error; on a record without homework_name it fails *)
(* with the missing-key error, whatever its status.                          *)
C12_NamedBadStatusIsUnknownStatus ==
    /\ (Parsed /\ homework.has_name /\ BadStatus(homework)) =>
          err.type = "HomeworkStatusIsUncorrectException"
    /\ (Parsed /\ ~homework.has_name) => err.type = "KeyError"

C12_Witness ==
    /\ pc = "except"
    /\ Parsed
    /\ homework.has_name
    /\ ~homework.has_status

-----------------------------------------------------------------------------
(* C13: on a response (a mapping) that lacks the homeworks key, the          *)
(* current_date key or both, check_response fails with the missing-key       *)
(* error, not with a shape error or the no-new-work condition.               *)
\* check_response has been applied to the response of the cycle
Validated == pc \in {"parse_status", "send_message", "advance", "except", "sleep"}
             /\ response.t = "dict"

C13_MissingKeyIsKeyError ==
    (Validated /\ (~response.has_homeworks \/ ~response.has_current_date)) =>
        /\ err.type = "KeyError"
        /\ err.text = (IF ~response.has_homeworks
                       THEN "'V otvete API net klyucha homeworks'"
                       ELSE "'V otvete API net klyucha current_date'")

\* current_date alone is missing, beside an empty list
C13_Witness ==
    /\ Validated
    /\ response.has_homeworks
    /\ response.homeworks_is_list
    /\ Len(response.homeworks) = 0
    /\ ~response.has_current_date
    /\ pc = "sleep"

-----------------------------------------------------------------------------
(* C14: with a credential absent at startup the process ends with an exit    *)
(* status other than zero.                                                   *)
C14_MissingCredentialExitsNonZero ==
    (AnyCredentialMissing /\ pc \in {"exited", "crashed"}) => ExitStatus # 0

-----------------------------------------------------------------------------
(* C15: once assigned, the cursor is an integer of [0, now], and so is the   *)
(* from_date of every request: it is the startup time or a current_date that *)
(* passed the range check of check_response in the same cycle.               *)
InRange(x) == IsInt(x) /\ x.v >= 0 /\ x.v <= now

C15_CursorInRange ==
    /\ timestamp # Unbound => InRange(timestamp)
    /\ from_date # Unbound => InRange(from_date)
    /\ (pc = "sleep" /\ timestamp # from_date) =>
          /\ timestamp = response.current_date
          /\ check_response(response, now) = NoErr

\* the cursor has moved back, to a current_date below the one it held
C15_Witness ==
    /\ pc = "sleep"
    /\ from_date # Unbound
    /\ timestamp.v < from_date.v

-----------------------------------------------------------------------------
(* C16: a cycle whose validation fails with a shape or missing-key error, or *)
(* whose first record fails to parse, leaves the cursor unchanged, and the   *)
(* next request carries the same from_date.                                  *)
\* the request of the cycle was answered and the answer was rejected
Rejected ==
    /\ response # NoResponse
    /\ err.type \in {"TypeError", "KeyError", "HomeworkStatusIsUncorrectException"}

C16_RejectedKeepsCursor ==
    /\ (pc = "sleep" /\ Rejected) => timestamp = from_date
    /\ (InCycle /\ prev.ended /\ prev.outcome = "failure") => from_date = prev.from_date
    /\ (pc = "get_api_answer" /\ prev.ended /\ prev.outcome = "failure") =>
          timestamp = prev.from_date

\* after an unknown status, with a current_date that differs from the cursor
C16_Witness ==
    /\ pc = "sleep"
    /\ Rejected
    /\ err.type = "HomeworkStatusIsUncorrectException"
    /\ response.current_date # from_date
    /\ prev.outcome = "failure"

-----------------------------------------------------------------------------
(* C17: the cursor and the dedup variable at the end of a cycle are          *)
(* determined by the exchange and the state the cycle began in, not by the   *)
(* outcome of the delivery: a status notification that was handed to         *)
(* send_message advances the cursor, and a failure notice that was handed to *)
(* send_message is recorded in the dedup variable, delivered or not.         *)
C17_DeliveryDoesNotMatter ==
    pc = "sleep" =>
        /\ timestamp = (IF Outcome = "status" THEN response.current_date ELSE from_date)
        /\ mistake_info_send_to_bot =
              (IF Outcome = "failure" THEN PyStr(FailureMessage(err)) ELSE start.mistake)
        /\ \A i \in DOMAIN sent :
              /\ sent[i].kind = "status" => timestamp = response.current_date
              /\ sent[i].kind = "failure" => mistake_info_send_to_bot = PyStr(sent[i].text)

\* a status notification that was not delivered, and the cursor moved
C17_Witness ==
    /\ pc = "sleep"
    /\ Len(sent) = 1
    /\ sent[1].kind = "status"
    /\ ~sent[1].delivered
    /\ timestamp # from_date

-----------------------------------------------------------------------------
(* C18: a cycle makes at most one call of bot.send_message: one status       *)
(* notification, or one failure notice, or none, never both.                 *)
C18_AtMostOneCall == Len(sent) <= 1

\* the cycle of an undelivered status notification ends with that one call
C18_Witness ==
    /\ pc = "sleep"
    /\ Len(sent) = 1
    /\ sent[1].kind = "status"
    /\ ~sent[1].delivered
    /\ timestamp = from_date

====
